---- MODULE Spec2Model ----
(***************************************************************************)
(* whereami (src/whereami.cpp): the line counting pass, the single-pass    *)
(* segmenter / indentation builder, the per-line context query and the     *)
(* context formatter.  Bytes are their ASCII codes; `text' is the buffer   *)
(* (0-based offsets, At(t, p) reads offset p); line_info_array is the      *)
(* LineInfo array, every record carrying the set of fields written so far. *)
(***************************************************************************)
EXTENDS Integers, Sequences, FiniteSets, TLC

\* ------------------------------------------------------------------ bytes
NUL == 0
TAB == 9
NL == 10
CR == 13
SP == 32
HASH == 35
DOLLAR == 36
LPAREN == 40
STAR == 42
SLASH == 47
COLON == 58
UNDERSCORE == 95
LBRACE == 123
PLUS == 43

\* "x", "1": one letter and one digit stand for the identifier characters
STR_x == <<120>>
STR_1 == <<49>>
CH_x == STR_x[1]
CH_1 == STR_1[1]

isspace(ch) == ch \in {9, 10, 11, 12, 13, 32}
isalnum(ch) == (ch >= 48 /\ ch <= 57) \/ (ch >= 65 /\ ch <= 90) \/ (ch >= 97 /\ ch <= 122)

\* the keywords of the source, as byte strings
STR_case == <<99, 97, 115, 101>>
STR_if_ == <<105, 102, 32>>
STR_do_ == <<100, 111, 32>>
STR_for_ == <<102, 111, 114, 32>>
STR_case_ == <<99, 97, 115, 101, 32>>
STR_while_ == <<119, 104, 105, 108, 101, 32>>
STR_switch_ == <<115, 119, 105, 116, 99, 104, 32>>
STR_namespace_ == <<110, 97, 109, 101, 115, 112, 97, 99, 101, 32>>

\* the help flags of line 256: "--help", "/?", "/help"
STR_help_dashes == <<45, 45, 104, 101, 108, 112>>
STR_help_question == <<47, 63>>
STR_help_slash == <<47, 104, 101, 108, 112>>

\* ------------------------------------------------------------------ bounds
MaxLen == 3
MaxLines == 3
MaxQueryLine == 2
MaxTokens == 4
StackLines == 5
ColumnMargin == 31
MaxIndentBytes == 3

\* ------------------------------------------------------------------ program constants
max_ident_or_num_len == 6
max_control_len == 20
tabsize_value == 8
near_distance == 20

\* ------------------------------------------------------------------ helpers
At(t, p) == t[p + 1]
Poke(t, p, v) == [t EXCEPT ![p + 1] = v]

RECURSIVE Repeat(_, _)
Repeat(s, n) == IF n <= 0 THEN <<>> ELSE s \o Repeat(s, n - 1)

RECURSIVE Flatten(_)
Flatten(ss) == IF ss = <<>> THEN <<>> ELSE Head(ss) \o Flatten(Tail(ss))

SeqsUpTo(S, n) == UNION {[1..k -> S] : k \in 0..n}

\* strncmp(text + p, s, Len(s)) == 0 on a NUL-terminated buffer: the comparison
\* stops at the first difference, which the terminating NUL always is
RECURSIVE HasPrefixAt(_, _, _)
HasPrefixAt(t, p, s) ==
    IF s = <<>> THEN TRUE
    ELSE IF p + 1 > Len(t) THEN FALSE
    ELSE IF At(t, p) # Head(s) THEN FALSE
    ELSE HasPrefixAt(t, p + 1, Tail(s))

VARIABLES
    argv,               \* the command line: argv[1] is the program name (argv[0] of the source)
    file_bytes,         \* the bytes of the file named by the command line
    file_ops,           \* the file calls made so far: fopen, fseek, ftell, fread, fclose
    held,               \* the resources held: file, text, line_info_array, context_array
    exit_code,          \* the exit status of the process, -1 while it runs
    messages,           \* what the process wrote besides the query output: (stream, message)
    pc,                 \* position of main: args, open, read, count, segment, comment, query,
                        \* done, exited, aborted, crashed
    text,               \* the buffer: file bytes, the terminating NUL (and the extra newline)
    file_size,
    query_line,
    n_lines,
    ptr,                \* scan offset into text
    line,
    column,
    tabsize,
    outer_index,
    line_info_array,
    line_info,          \* index of the current entry of line_info_array
    prev_indentation,
    may_become_context,
    prev_valid_index,
    comment_contains_newline,
    index,              \* loop variable of the query loop
    end_index,
    context_array,      \* the context array of the latest query iteration (index, text offset)
    output,             \* what was written to stdout, one item per printf/print_context
    failed_asserts,     \* source lines of the assert()s whose condition was false
    oob,                \* the phases ("build", "query") in which line_info_array was accessed
                        \* outside its bounds (undefined behaviour)
    line_kind,          \* history: how each line index was produced by the segmenter
    diagnostics         \* the warnings written to stderr: (line, byte)

vars == <<argv, file_bytes, file_ops, held, exit_code, messages, pc, text, file_size, query_line, n_lines, ptr, line, column, tabsize, outer_index,
          line_info_array, line_info, prev_indentation, may_become_context, prev_valid_index,
          comment_contains_newline, index, end_index, context_array, output,
          failed_asserts, oob, line_kind, diagnostics>>

parser == <<line, column, tabsize, outer_index, line_info_array, line_info, prev_indentation,
            may_become_context, prev_valid_index, comment_contains_newline, line_kind,
            diagnostics>>
query == <<index, end_index, context_array, output>>
env == <<argv, file_bytes, file_ops>>

\* ------------------------------------------------------------------ input files
\* every byte string up to MaxLen over the bytes the segmenter distinguishes
ByteAlphabet == {NUL, TAB, NL, CR, SP, HASH, STAR, SLASH, LBRACE, CH_x}
ByteFiles == SeqsUpTo(ByteAlphabet, MaxLen)

\* files of up to MaxLines newline-terminated lines
Indented(k, body) == Repeat(<<SP>>, k) \o body \o <<NL>>
LineKinds ==
    {Indented(k, <<CH_x>>) : k \in {0, 1, 2}}
    \cup {Indented(k, <<LBRACE>>) : k \in {0, 1, 2}}
    \cup {Indented(k, <<SLASH, STAR>>) : k \in {0, 1}}
    \cup {Indented(0, <<STAR, SLASH>>), Indented(0, <<>>), Indented(1, <<HASH>>)}
LineFiles == {Flatten(ls) : ls \in SeqsUpTo(LineKinds, MaxLines)}

\* three-line files: an eligible line, any kind of line, an eligible line
OddBodies ==
    {<<>>, <<HASH>>, <<SLASH, SLASH>>, <<CH_x, COLON>>, <<CH_x, SP, COLON, COLON>>,
     STR_case_ \o <<CH_1, COLON>>, STR_case, <<CH_x, COLON, CH_x>>,
     <<SLASH, STAR, STAR, SLASH>>, <<SLASH, STAR, STAR, SLASH, SP, CH_x>>,
     <<SLASH, STAR, STAR, SLASH, LBRACE>>, <<SLASH, CH_x>>, <<CR>>, <<CH_x, CR>>,
     <<TAB, CH_x>>, <<SP, TAB, LBRACE>>, <<7, CH_x>>, <<SLASH, STAR, NL, STAR, SLASH>>,
     <<CH_x, NL, SP, SP, SP, CH_x>>}
ClassifyFiles ==
    {Indented(a, <<CH_x>>) \o Indented(b, m) \o Indented(c, <<CH_x>>) :
        a \in {0, 1}, b \in {0, 1, 2}, c \in {0, 1, 2}, m \in OddBodies}

\* files longer than near_distance lines: one or two header lines, a run of
\* blank lines, one or two nested lines
HeadLines ==
    {Indented(0, STR_if_ \o <<CH_x>>), Indented(0, <<CH_x, LPAREN>>), Indented(0, <<LBRACE>>)}
LongFiles ==
    {h \o m \o Repeat(<<NL>>, g) \o Indented(2, <<CH_x>>) \o t :
        h \in HeadLines,
        m \in {<<>>, Indented(1, <<LBRACE>>), Indented(1, <<CH_x>>)},
        g \in {near_distance - 3, near_distance - 2, near_distance - 1, near_distance},
        t \in {<<>>, Indented(3, <<CH_x>>)}}

\* files of StackLines lines without comments: eligible lines at three depths
\* and a preprocessor line
StackKinds == {Indented(k, <<CH_x>>) : k \in {0, 1, 2}} \cup {Indented(1, <<HASH>>)}
StackFiles == {Flatten(ls) : ls \in [1..StackLines -> StackKinds]}

\* a line, MaxLines lines that are braces or not, and a deepest line
SkipKinds == {Indented(k, b) : k \in {0, 1, 2}, b \in {<<CH_x>>, <<LBRACE>>}}
SkipFiles ==
    {Indented(k, <<CH_x>>) \o Flatten(ls) \o Indented(3, <<CH_x>>) :
        k \in {0, 2}, ls \in [1..MaxLines -> SkipKinds]}

Inputs ==
    {<<f, q>> : f \in ByteFiles, q \in 0..MaxQueryLine}
    \cup {<<f, 0>> : f \in LineFiles \cup ClassifyFiles \cup LongFiles \cup StackFiles
                            \cup SkipFiles}

\* ------------------------------------------------------------------ command lines
STR_whereami == <<119, 104, 101, 114, 101, 97, 109, 105>>
STR_f == <<102>>
\* the decimal digits of a line number below 10
NumArg(q) == <<48 + q>>
CommandLine(q) == <<STR_whereami, STR_f, NumArg(q)>>

\* command lines with a help flag, with another number of arguments, or with
\* a second argument that is not just a number
OddNumbers ==
    {<<>>, <<CH_1, CH_x>>, <<CH_x>>, <<SP, PLUS, CH_1>>, <<PLUS>>, <<SP>>, <<CH_1, SP>>,
     <<48, CH_1>>, <<CH_1, 48>>}
OddCommandLines ==
    {<<STR_whereami>>, <<STR_whereami, STR_f>>, <<STR_whereami, STR_f, <<CH_1>>, <<CH_1>>>>,
     <<STR_whereami, STR_help_dashes>>, <<STR_whereami, STR_f, STR_help_question>>,
     <<STR_whereami, STR_f, <<CH_1>>, STR_help_slash>>,
     <<STR_whereami, STR_help_slash, <<CH_1, CH_x>>>>,
     <<STR_whereami, STR_f, STR_help_dashes \o <<CH_x>>>>}
    \cup {<<STR_whereami, STR_f, n>> : n \in OddNumbers}

Runs ==
    {[argv |-> CommandLine(in[2]), file |-> in[1]] : in \in Inputs}
    \cup {[argv |-> a, file |-> <<CH_x, NL, SP, CH_x, NL>>] : a \in OddCommandLines}

\* the process at the start of main; the statics of the parser state are
\* zero-initialised (lines 211-221), no buffer is allocated yet
Init ==
    \E run \in Runs :
        /\ argv = run.argv
        /\ file_bytes = run.file
        /\ file_ops = {}
        /\ held = {}
        /\ exit_code = -1
        /\ messages = <<>>
        /\ pc = "args"
        /\ text = <<>>
        /\ file_size = 0
        /\ query_line = 0
        /\ n_lines = 0
        /\ ptr = 0
        /\ line = 0
        /\ column = 0
        /\ tabsize = 0
        /\ outer_index = 0
        /\ line_info_array = <<>>
        /\ line_info = 0
        /\ prev_indentation = 0
        /\ may_become_context = FALSE
        /\ prev_valid_index = 0
        /\ comment_contains_newline = FALSE
        /\ index = 0
        /\ end_index = 0
        /\ context_array = <<>>
        /\ output = <<>>
        /\ failed_asserts = {}
        /\ oob = {}
        /\ line_kind = <<>>
        /\ diagnostics = <<>>

\* ------------------------------------------------------------------ exits
\* exit_error / exit_clib_error (lines 85-105): one message on stderr, exit(EXIT_FAILURE)
exit_error(msg) ==
    /\ messages' = Append(messages, <<"stderr", msg>>)
    /\ exit_code' = 1
    /\ pc' = "exited"

\* ------------------------------------------------------------------ the command line
IsDigit(ch) == ch >= 48 /\ ch <= 57

RECURSIVE SkipSpaces(_, _)
SkipSpaces(s, k) == IF k <= Len(s) /\ isspace(s[k]) THEN SkipSpaces(s, k + 1) ELSE k

RECURSIVE DigitsEnd(_, _)
DigitsEnd(s, k) == IF k <= Len(s) /\ IsDigit(s[k]) THEN DigitsEnd(s, k + 1) ELSE k

RECURSIVE DigitsValue(_, _, _)
DigitsValue(s, k, acc) ==
    IF k <= Len(s) /\ IsDigit(s[k]) THEN DigitsValue(s, k + 1, 10 * acc + (s[k] - 48)) ELSE acc

\* strtoul that takes the whole string for the number
strtoul_takes_all(s) == [value |-> DigitsValue(s, DigitsEnd(s, 1), 0), end |-> Len(s) + 1]

\* strtoul(s, &end, 10) for strings without '-': white space, an optional '+',
\* digits; `end' is the position of the first character not converted (the
\* position of the terminating NUL is Len(s) + 1), and the start of the string
\* when there is no digit
strtoul(s) ==
    LET k0 == SkipSpaces(s, 1)
        k1 == IF k0 <= Len(s) /\ s[k0] = PLUS THEN k0 + 1 ELSE k0
        k2 == DigitsEnd(s, k1)
    IN IF k2 = k1 THEN [value |-> 0, end |-> 1]
       ELSE [value |-> DigitsValue(s, k1, 0), end |-> k2]

IsHelpFlag(arg) == arg \in {STR_help_dashes, STR_help_question, STR_help_slash}

\* lines 250-271
ParseArgs ==
    /\ pc = "args"
    /\ LET argc == Len(argv)
       IN IF \E i \in 2..argc : IsHelpFlag(argv[i])
          THEN /\ messages' = Append(messages, <<"stdout", "usage">>)
               /\ exit_code' = 0
               /\ pc' = "exited"
               /\ UNCHANGED query_line
          ELSE IF argc # 3
          THEN /\ exit_error("expected two arguments")
               /\ UNCHANGED query_line
          ELSE LET r == strtoul(argv[3])
               IN /\ query_line' = r.value
                  /\ IF r.end <= Len(argv[3])
                     THEN exit_error("expected a line number")
                     ELSE /\ pc' = "open"
                          /\ UNCHANGED <<exit_code, messages>>
    /\ UNCHANGED <<env, held, text, file_size, n_lines, ptr, tabsize, parser, query,
                   failed_asserts, oob>>

\* ------------------------------------------------------------------ reading the file
\* lines 293-306: open the file and get its size; any of the calls can fail,
\* and ftell can report a size above UINT32_MAX (for a file too large to be
\* written out here)
OpenFile ==
    /\ pc = "open"
    /\ \/ /\ file_ops' = file_ops \cup {"fopen"}
          /\ exit_error("could not open file")
          /\ UNCHANGED <<held, file_size>>
       \/ /\ file_ops' = file_ops \cup {"fopen", "fseek"}
          /\ held' = held \cup {"file"}
          /\ exit_error("could not seek the end of file")
          /\ UNCHANGED file_size
       \/ /\ file_ops' = file_ops \cup {"fopen", "fseek", "ftell"}
          /\ held' = held \cup {"file"}
          /\ exit_error("could not get the size of file")
          /\ UNCHANGED file_size
       \/ /\ file_ops' = file_ops \cup {"fopen", "fseek", "ftell"}
          /\ held' = held \cup {"file"}
          /\ exit_error("File size is not supported")
          /\ UNCHANGED file_size
       \/ /\ file_ops' = file_ops \cup {"fopen", "fseek", "ftell"}
          /\ held' = held \cup {"file"}
          /\ file_size' = Len(file_bytes)
          /\ pc' = "read"
          /\ UNCHANGED <<exit_code, messages>>
    /\ UNCHANGED <<argv, file_bytes, query_line, text, n_lines, ptr, tabsize, parser, query,
                   failed_asserts, oob>>

\* lines 308-339: allocate the buffer, read the file into it, terminate it,
\* close the file
ReadFile ==
    /\ pc = "read"
    /\ \/ /\ exit_error("Out-of-memory allocating buffer for file text")
          /\ UNCHANGED <<file_ops, held, text>>
       \/ /\ file_ops' = file_ops \cup {"fseek"}
          /\ held' = held \cup {"text"}
          /\ exit_error("could not seek the beginning of file")
          /\ UNCHANGED text
       \/ /\ file_size > 0
          /\ file_ops' = file_ops \cup {"fseek", "fread"}
          /\ held' = held \cup {"text"}
          /\ exit_error("Reading file gave fewer bytes")
          /\ UNCHANGED text
       \/ /\ file_ops' = file_ops \cup {"fseek", "fread", "fclose"}
          /\ held' = (held \cup {"text"}) \ {"file"}
          /\ text' = file_bytes \o <<NUL>>
          /\ exit_error("could not close file")
       \/ /\ file_ops' = file_ops \cup {"fseek", "fread", "fclose"}
          /\ held' = (held \cup {"text"}) \ {"file"}
          /\ text' = file_bytes \o <<NUL>>
          /\ pc' = "count"
          /\ UNCHANGED <<exit_code, messages>>
    /\ UNCHANGED <<argv, file_bytes, query_line, file_size, n_lines, ptr, tabsize, parser,
                   query, failed_asserts, oob>>

\* ------------------------------------------------------------------ line counting
\* offset of the first NUL at or after p (the buffer is NUL-terminated)
RECURSIVE strend(_, _)
strend(t, p) == IF At(t, p) = NUL THEN p ELSE strend(t, p + 1)

\* the counting loop of lines 347-349
CountNewlines(t) == Cardinality({p \in 0..(strend(t, 0) - 1) : At(t, p) = NL})

NewLineInfo == [outer_index |-> 0, indentation |-> 0, start_offset |-> 0, written |-> {}]

\* lines 343-383: count the lines, append the extra newline, allocate the
\* LineInfo array, reset the parser state
CountLines ==
    /\ pc = "count"
    /\ LET n_bytes_read == file_size
           file_contains_a_nul_byte == strend(text, 0) < n_bytes_read
           extra == ~file_contains_a_nul_byte /\ file_size # 0
                    /\ At(text, file_size - 1) # NL
           n == CountNewlines(text) + (IF extra THEN 1 ELSE 0)
       IN /\ n_lines' = n
          /\ text' = IF extra THEN Poke(text, n_bytes_read, NL) \o <<NUL>> ELSE text
          /\ \/ /\ line_info_array' = [i \in 0..(n - 1) |-> NewLineInfo]
                /\ held' = held \cup {"line_info_array"}
                /\ ptr' = 0
                /\ line' = 1
                /\ column' = 0
                /\ tabsize' = tabsize_value
                /\ outer_index' = -1
                /\ line_info' = 0
                /\ prev_indentation' = 0
                /\ may_become_context' = TRUE
                /\ prev_valid_index' = -1
                /\ pc' = "segment"
                /\ UNCHANGED <<exit_code, messages>>
             \/ \* malloc returned a null pointer (lines 371-372)
                /\ exit_error("Out-of-memory allocating line info buffer")
                /\ UNCHANGED <<held, ptr, line, column, tabsize, outer_index, line_info_array,
                               line_info, prev_indentation, may_become_context,
                               prev_valid_index>>
    /\ UNCHANGED <<env, file_size, query_line, comment_contains_newline, query, failed_asserts,
                   oob, line_kind, diagnostics>>

\* ------------------------------------------------------------------ parser state as a value
\* The operators below work on one record holding the parser state; `fails' lists
\* the assert()s of this step whose condition was false, in program order, and
\* `wild' says that this step accessed line_info_array outside its bounds.
Cur ==
    [text |-> text, ptr |-> ptr, n_lines |-> n_lines, file_size |-> file_size, line |-> line, column |-> column,
     outer_index |-> outer_index, line_info_array |-> line_info_array,
     line_info |-> line_info, prev_indentation |-> prev_indentation,
     may_become_context |-> may_become_context, prev_valid_index |-> prev_valid_index,
     comment_contains_newline |-> comment_contains_newline, line_kind |-> line_kind,
     diagnostics |-> diagnostics, fails |-> <<>>, wild |-> FALSE]

\* assert(cond) at source line n
Check(s, cond, n) == IF cond THEN s ELSE [s EXCEPT !.fails = Append(@, n)]

\* line_info-><field> = v
WriteLineInfo(s, field, v) ==
    IF s.line_info \in DOMAIN s.line_info_array
    THEN [s EXCEPT !.line_info_array[s.line_info] =
                       [@ EXCEPT ![field] = v, !.written = @ \cup {field}]]
    ELSE [s EXCEPT !.wild = TRUE]

\* line_info++ (line_kind remembers what the finished line was)
NextLineInfo(s, kind, elig) ==
    [s EXCEPT !.line_info = @ + 1,
              !.line_kind = Append(@, [kind |-> kind, elig |-> elig, idx |-> s.line_info])]

\* ------------------------------------------------------------------ process_indentation_of_current_line
\* PopLoop with the loop condition column < indentation: a context of equal
\* indentation is not closed
RECURSIVE PopLoopKeepsEqual(_)
PopLoopKeepsEqual(s) ==
    LET oi == s.outer_index
        A == s.line_info_array
    IN IF oi >= 0 /\ s.column < A[oi].indentation
       THEN LET no == A[oi].outer_index
            IN PopLoopKeepsEqual([s EXCEPT !.outer_index = no,
                                  !.prev_indentation = IF no >= 0 THEN A[no].indentation ELSE 0,
                                  !.prev_valid_index = s.line - 1])
       ELSE s

\* the while loop of lines 226-233
RECURSIVE PopLoop(_)
PopLoop(s) ==
    LET oi == s.outer_index
        A == s.line_info_array
    IN IF oi >= 0 /\ s.column <= A[oi].indentation
       THEN LET a1 == Check(s, oi < s.n_lines, 227)
                a2 == Check(a1, s.prev_indentation >= A[oi].indentation, 228)
                a3 == Check(a2, A[oi].outer_index < oi, 229)
                no == A[oi].outer_index
            IN PopLoop([a3 EXCEPT !.outer_index = no,
                                  !.prev_indentation = IF no >= 0 THEN A[no].indentation ELSE 0,
                                  !.prev_valid_index = s.line - 1])
       ELSE s

\* AdjustOuter opening a context below a line that is not eligible
AdjustOuterAnyLine(s, may_close_context) ==
    IF may_close_context /\ s.column < s.prev_indentation
    THEN PopLoop(s)
    ELSE IF s.line > 1 /\ s.column > s.prev_indentation
         THEN [Check(s, s.line >= 2, 236) EXCEPT !.outer_index = s.prev_valid_index]
         ELSE s

\* AdjustOuter opening the context at the current line instead of prev_valid_index
AdjustOuterAtSelf(s, may_close_context) ==
    IF may_close_context /\ s.column < s.prev_indentation
    THEN PopLoop(s)
    ELSE IF s.may_become_context /\ (s.line > 1 /\ s.column > s.prev_indentation)
         THEN [s EXCEPT !.outer_index = s.line - 1]
         ELSE s

\* lines 225-238: close contexts, or open one, or neither
AdjustOuter(s, may_close_context) ==
    IF may_close_context /\ s.column < s.prev_indentation
    THEN PopLoop(s)
    ELSE IF s.may_become_context /\ (s.line > 1 /\ s.column > s.prev_indentation)
         THEN [Check(s, s.line >= 2, 236) EXCEPT !.outer_index = s.prev_valid_index]
         ELSE s

\* RememberLine without the test of line 240
RememberLineAlways(s, may_close_context) ==
    [s EXCEPT !.prev_indentation = s.column, !.prev_valid_index = s.line - 1]

\* RememberLine without the assignment of line 241
RememberLineKeepsIndentation(s, may_close_context) ==
    IF s.may_become_context \/ may_close_context
    THEN [s EXCEPT !.prev_valid_index = s.line - 1]
    ELSE s

\* lines 240-243
RememberLine(s, may_close_context) ==
    IF s.may_become_context \/ may_close_context
    THEN [s EXCEPT !.prev_indentation = s.column, !.prev_valid_index = s.line - 1]
    ELSE s

process_indentation_of_current_line(s, may_close_context) ==
    LET a == AdjustOuter(s, may_close_context)
        b == WriteLineInfo(a, "outer_index", a.outer_index)
    IN RememberLine(b, may_close_context)

\* ------------------------------------------------------------------ the segmenter
\* label whitespace_only_line, lines 391-400 (ptr is already past the newline)
whitespace_only_line(s) ==
    LET a == Check([s EXCEPT !.line = @ + 1], s.line_info < s.n_lines, 392)
        b == WriteLineInfo(a, "indentation", s.prev_indentation)
        c == WriteLineInfo(b, "outer_index", s.outer_index)
        d == WriteLineInfo(c, "start_offset", s.ptr - 1)
        e == NextLineInfo(d, "blank", FALSE)
    IN [e EXCEPT !.may_become_context = TRUE, !.text = Poke(@, s.ptr - 1, NUL), !.column = 0]

\* the loop condition of lines 496 and 543: not at the end of the line
InLine(t, p) == At(t, p) # NUL /\ At(t, p) # NL /\ (At(t, p) # CR \/ At(t, p + 1) # NL)

\* lines 492-515: the line is "identifier:" (scan from offset p)
RECURSIVE only_one_identifier(_, _, _, _)
only_one_identifier(t, p, seen_space, seen_colon) ==
    IF ~InLine(t, p) THEN seen_colon
    ELSE LET ch == At(t, p)
         IN IF (seen_space \/ seen_colon) /\ (~seen_colon \/ ch # COLON) /\ ~isspace(ch)
            THEN FALSE
            ELSE IF ch = COLON THEN only_one_identifier(t, p + 1, seen_space, TRUE)
            ELSE IF isspace(ch) THEN only_one_identifier(t, p + 1, TRUE, seen_colon)
            ELSE IF ~isalnum(ch) /\ ch # UNDERSCORE THEN FALSE
            ELSE only_one_identifier(t, p + 1, seen_space, seen_colon)

\* lines 483-534: the eligibility of the line whose first character ch was
\* read from offset ptr - 1 (after a one-line comment: ptr is the offset after it)
Classify(s, ch) ==
    LET m1 == s.may_become_context /\ ~(ch = SLASH /\ At(s.text, s.ptr) = SLASH)
        m2 == m1 /\ ~only_one_identifier(s.text, s.ptr, FALSE, FALSE)
        m3 == m2 /\ ~(HasPrefixAt(s.text, s.ptr - 1, STR_case) /\ isspace(At(s.text, s.ptr + 3)))
    IN [s EXCEPT !.may_become_context = m3]

RECURSIVE EndOfLine(_, _)
EndOfLine(t, p) == IF InLine(t, p) THEN EndOfLine(t, p + 1) ELSE p

\* label skip_rest_of_line, lines 537-556
skip_rest_of_line(s, kind) ==
    LET a == process_indentation_of_current_line(s, s.may_become_context)
        p0 == EndOfLine(a.text, a.ptr)
        cr == At(a.text, p0) = CR
        p1 == IF cr THEN p0 + 1 ELSE p0
        t1 == IF cr THEN Poke(a.text, p0, NUL) ELSE a.text
        nl == At(t1, p1) = NL
        p2 == IF nl THEN p1 + 1 ELSE p1
        t2 == IF nl THEN Poke(t1, p1, NUL) ELSE t1
        b == Check([a EXCEPT !.text = t2, !.ptr = p2], p2 <= s.file_size, 550)
        c == NextLineInfo([b EXCEPT !.line = @ + 1], kind, a.may_become_context)
    IN [c EXCEPT !.may_become_context = TRUE, !.column = 0]

\* label first_nonwhitespace_character, lines 466-556
first_nonwhitespace_character(s, ch) ==
    LET w == IF ch < 32 THEN [s EXCEPT !.diagnostics = Append(@, <<s.line, ch>>)] ELSE s
        a == Check(w, s.line_info < s.n_lines, 472)
        b == WriteLineInfo(a, "indentation", s.column)
        c == WriteLineInfo(b, "start_offset", s.ptr - 1)
        d == Check(c, s.outer_index < 0
                      \/ s.prev_indentation >= s.line_info_array[s.outer_index].indentation, 477)
    IN skip_rest_of_line(Classify(d, ch), "code")

\* ------------------------------------------------------------------ outcome of a step
\* the exit status of a process ended by abort(): 128 + SIGABRT
abort_status == 128 + 6

Range(q) == {q[i] : i \in DOMAIN q}

\* A step that ran into a false assert() ends the process there in a build with
\* assertions, and goes on in a build without (NDEBUG); a step that accessed
\* memory outside line_info_array has undefined behaviour: the process crashes or
\* goes on with the access lost.
Commit(s, next_pc) ==
    /\ \/ /\ pc' = next_pc
          /\ failed_asserts' = failed_asserts \cup Range(s.fails)
          /\ oob' = IF s.wild THEN oob \cup {"build"} ELSE oob
          /\ text' = s.text
          /\ ptr' = s.ptr
          /\ line' = s.line
          /\ column' = s.column
          /\ outer_index' = s.outer_index
          /\ line_info_array' = s.line_info_array
          /\ line_info' = s.line_info
          /\ prev_indentation' = s.prev_indentation
          /\ may_become_context' = s.may_become_context
          /\ prev_valid_index' = s.prev_valid_index
          /\ comment_contains_newline' = s.comment_contains_newline
          /\ line_kind' = s.line_kind
          /\ diagnostics' = s.diagnostics
          /\ UNCHANGED exit_code
       \/ /\ s.fails # <<>>
          /\ failed_asserts = {}
          /\ pc' = "aborted"
          /\ exit_code' = abort_status
          /\ failed_asserts' = {Head(s.fails)}
          /\ UNCHANGED <<oob, text, ptr, parser>>
       \/ /\ s.wild
          /\ pc' = "crashed"
          /\ oob' = oob \cup {"build"}
          /\ failed_asserts' = failed_asserts \cup Range(s.fails)
          /\ UNCHANGED <<text, ptr, parser, exit_code>>
    /\ UNCHANGED <<env, held, messages, file_size, query_line, n_lines, tabsize, query>>

\* while (*ptr) { assert(ptr <= text + file_size); char ch = *ptr++; ...
Fetch == [Check(Cur, ptr <= file_size, 385) EXCEPT !.ptr = @ + 1]
AtSegment(chars) == pc = "segment" /\ At(text, ptr) # NUL /\ At(text, ptr) \in chars

\* case '\n'
BlankLine ==
    /\ AtSegment({NL})
    /\ Commit(whitespace_only_line(Fetch), "segment")

\* ------------------------------------------------------------------ uint32_t columns
\* `column' is a uint32_t. Its arithmetic is written on the pair of the 16-bit
\* halves of a number, so that the values at the top of uint32_t, which a line
\* indented by 2^29 tabs reaches, can be computed with.
Half == 65536
U32(n) == [hi |-> n \div Half, lo |-> n % Half]
Num(u) == u.hi * Half + u.lo

\* u + k, u / d and k * u on natural numbers, for small k and d
nat_add(u, k) == LET lo == u.lo + k IN [hi |-> u.hi + lo \div Half, lo |-> lo % Half]
nat_div(u, d) == [hi |-> u.hi \div d, lo |-> ((u.hi % d) * Half + u.lo) \div d]
nat_mul(k, u) == LET lo == k * u.lo IN [hi |-> k * u.hi + lo \div Half, lo |-> lo % Half]

\* the conversion of a result to uint32_t: modulo 2^32
wrap(u) == [u EXCEPT !.hi = @ % Half]

\* lines 402-403: column++; column = tabsize * ((column + tabsize - 1) / tabsize);
column_after_tab(c, ts) ==
    LET c1 == wrap(nat_add(c, 1))
    IN wrap(nat_mul(ts, nat_div(wrap(nat_add(c1, ts - 1)), ts)))

\* line 406: column++
column_after_space(c) == wrap(nat_add(c, 1))

\* case '\t'
Tab ==
    /\ AtSegment({TAB})
    /\ Commit([Fetch EXCEPT !.column = Num(column_after_tab(U32(column), tabsize))], "segment")

\* Space without the increment of ptr
SpaceStays ==
    /\ AtSegment({SP})
    /\ Commit([Cur EXCEPT !.column = @ + 1], "segment")

\* case ' '
Space ==
    /\ AtSegment({SP})
    /\ Commit([Fetch EXCEPT !.column = Num(column_after_space(U32(@)))], "segment")

\* case '\r'
CarriageReturn ==
    /\ AtSegment({CR})
    /\ Commit([Fetch EXCEPT !.text = Poke(@, ptr, NUL)], "segment")

\* case '#' and default
LineStart ==
    /\ pc = "segment"
    /\ At(text, ptr) \notin {NUL, NL, TAB, SP, CR, SLASH}
    /\ LET ch == At(text, ptr)
           s == IF ch = HASH THEN [Fetch EXCEPT !.may_become_context = FALSE] ELSE Fetch
       IN Commit(first_nonwhitespace_character(s, ch), "segment")

\* case '/' not followed by '*'
SlashLine ==
    /\ AtSegment({SLASH})
    /\ At(text, ptr + 1) # STAR
    /\ Commit(first_nonwhitespace_character(Fetch, SLASH), "segment")

\* case '/' followed by '*': lines 418-420
CommentOpen ==
    /\ AtSegment({SLASH})
    /\ At(text, ptr + 1) = STAR
    /\ LET a == [Fetch EXCEPT !.ptr = @ + 1]
           b == WriteLineInfo(a, "indentation", column)
       IN Commit([b EXCEPT !.comment_contains_newline = FALSE], "comment")

\* ------------------------------------------------------------------ block comments
\* the loop condition of line 421
InComment == At(text, ptr) # NUL /\ (At(text, ptr) # STAR \/ At(text, ptr + 1) # SLASH)

\* lines 423-432: a newline inside the comment ends a line of the file
comment_newline(s) ==
    LET a == [s EXCEPT !.may_become_context = FALSE]
        b == process_indentation_of_current_line(a, ~s.comment_contains_newline)
        c == WriteLineInfo(b, "start_offset", s.ptr)
        d == WriteLineInfo(c, "indentation", s.column)
        e == NextLineInfo([d EXCEPT !.line = @ + 1],
                          IF s.comment_contains_newline THEN "comment_inner" ELSE "comment_open",
                          FALSE)
    IN [e EXCEPT !.text = Poke(@, s.ptr, NUL), !.comment_contains_newline = TRUE]

\* one iteration of the loop of lines 421-437
CommentChar ==
    /\ pc = "comment"
    /\ InComment
    /\ LET s == IF At(text, ptr) = NL THEN comment_newline(Cur)
                ELSE IF At(text, ptr) = CR THEN [Cur EXCEPT !.text = Poke(@, ptr, NUL)]
                ELSE Cur
       IN Commit([s EXCEPT !.ptr = @ + 1], "comment")

\* lines 447-451: skip whitespace without increasing column
RECURSIVE skip_whitespace(_)
skip_whitespace(s) ==
    IF At(s.text, s.ptr) \in {SP, TAB, CR}
    THEN skip_whitespace([s EXCEPT !.text = IF At(s.text, s.ptr) = CR
                                                 THEN Poke(@, s.ptr, NUL) ELSE @,
                                   !.ptr = @ + 1])
    ELSE s

\* lines 438-460: after the comment loop
comment_end(s) ==
    IF At(s.text, s.ptr) = STAR
    THEN LET a == [s EXCEPT !.ptr = @ + 2]
         IN IF s.comment_contains_newline
            THEN LET b == WriteLineInfo(a, "start_offset", a.ptr)
                     c == WriteLineInfo(b, "indentation", s.prev_indentation)
                 IN skip_rest_of_line(c, "comment_close")
            ELSE LET w == skip_whitespace(a)
                 IN IF At(w.text, w.ptr) = NL
                    THEN whitespace_only_line([w EXCEPT !.ptr = @ + 1])
                    ELSE IF At(w.text, w.ptr) = NUL THEN w
                    ELSE first_nonwhitespace_character(w, SLASH)
    ELSE s

CommentClose ==
    /\ pc = "comment"
    /\ ~InComment
    /\ Commit(comment_end(Cur), "segment")

\* ------------------------------------------------------------------ end of the build pass
\* the loop of line 384 ends; line 560; lines 563-572
BuildDone ==
    /\ pc = "segment"
    /\ At(text, ptr) = NUL
    /\ LET ok == line_info = n_lines
       IN \/ /\ pc' = "query"
             /\ failed_asserts' = IF ok THEN failed_asserts ELSE failed_asserts \cup {560}
             /\ index' = IF query_line # 0 THEN query_line - 1 ELSE 0
             /\ end_index' = IF query_line # 0 THEN query_line ELSE n_lines
             /\ UNCHANGED exit_code
          \/ /\ ~ok
             /\ failed_asserts = {}
             /\ pc' = "aborted"
             /\ exit_code' = abort_status
             /\ failed_asserts' = {560}
             /\ UNCHANGED <<index, end_index>>
    /\ UNCHANGED <<env, held, messages, text, file_size, query_line, n_lines, ptr, tabsize,
                   parser, context_array, output, oob>>

\* ------------------------------------------------------------------ the context formatter
is_control_flow(t, p) ==
    \/ HasPrefixAt(t, p, STR_if_)
    \/ HasPrefixAt(t, p, STR_do_)
    \/ HasPrefixAt(t, p, STR_for_)
    \/ HasPrefixAt(t, p, STR_case_)
    \/ HasPrefixAt(t, p, STR_while_)
    \/ HasPrefixAt(t, p, STR_switch_)

\* the loop of lines 156-157 around maybe_skip_substr
RECURSIVE maybe_skip_substr(_, _)
maybe_skip_substr(t, p) ==
    IF HasPrefixAt(t, p, STR_namespace_) THEN maybe_skip_substr(t, p + Len(STR_namespace_)) ELSE p

\* put_ident truncating whether or not the line could be a function name
put_ident_truncates_always(r, ch) ==
    LET a == IF r.prev_was_space /\ isalnum(r.before_space)
             THEN [r EXCEPT !.out = Append(@, SP), !.n_chars = @ + 1]
             ELSE r
        b == IF a.ident_or_num_len = max_ident_or_num_len
             THEN [a EXCEPT !.out = Append(@, DOLLAR), !.n_chars = @ + 1, !.ch = DOLLAR]
             ELSE IF a.ident_or_num_len < max_ident_or_num_len
             THEN [a EXCEPT !.out = Append(@, ch), !.n_chars = @ + 1, !.ch = ch]
             ELSE [a EXCEPT !.ch = DOLLAR]
    IN [b EXCEPT !.ident_or_num_len = @ + 1, !.stop = FALSE]

\* lines 173-190: an identifier or number character
put_ident(r, ch) ==
    LET a == IF r.prev_was_space /\ isalnum(r.before_space)
             THEN [r EXCEPT !.out = Append(@, SP), !.n_chars = @ + 1]
             ELSE r
        b == IF ~a.could_be_fn_name /\ a.ident_or_num_len = max_ident_or_num_len
             THEN [a EXCEPT !.out = Append(@, DOLLAR), !.n_chars = @ + 1, !.ch = DOLLAR]
             ELSE IF a.could_be_fn_name \/ a.ident_or_num_len < max_ident_or_num_len
             THEN [a EXCEPT !.out = Append(@, ch), !.n_chars = @ + 1, !.ch = ch]
             ELSE [a EXCEPT !.ch = DOLLAR]
    IN [b EXCEPT !.ident_or_num_len = @ + 1, !.stop = FALSE]

\* put_other breaking at every '(' whether or not the line could be a function name
put_other_stops_at_paren(r, ch) ==
    LET a == [r EXCEPT !.out = Append(@, ch), !.n_chars = @ + 1, !.ch = ch]
    IN IF ch = LPAREN
       THEN [a EXCEPT !.stop = TRUE]
       ELSE [a EXCEPT !.ident_or_num_len = 0, !.stop = FALSE]

\* lines 191-200: any other character; `stop' is the break of line 196
put_other(r, ch) ==
    LET a == [r EXCEPT !.out = Append(@, ch), !.n_chars = @ + 1, !.ch = ch]
    IN IF ch = LPAREN /\ a.could_be_fn_name
       THEN [a EXCEPT !.stop = TRUE]
       ELSE [a EXCEPT !.could_be_fn_name = IF ch = LPAREN THEN FALSE ELSE @,
                      !.ident_or_num_len = 0, !.stop = FALSE]

\* the loop of lines 164-205; r holds the locals of print_context and `out',
\* the characters written by putc
RECURSIVE print_loop(_, _, _)
print_loop(t, is_control, r) ==
    IF At(t, r.ptr) = NUL THEN r.out
    ELSE
    LET ch == At(t, r.ptr)
        p1 == r.ptr + 1
    IN IF isspace(ch)
       THEN print_loop(t, is_control, [r EXCEPT !.ptr = p1, !.ident_or_num_len = 0,
                                                !.prev_was_space = TRUE])
       ELSE IF ch = SLASH /\ At(t, p1) = SLASH THEN r.out
       ELSE
       LET n == IF isalnum(ch) \/ ch = UNDERSCORE THEN put_ident(r, ch) ELSE put_other(r, ch)
       IN IF n.stop THEN n.out
          ELSE IF is_control /\ n.n_chars >= max_control_len THEN n.out
          ELSE print_loop(t, is_control, [n EXCEPT !.ptr = p1, !.prev_was_space = FALSE,
                                                   !.before_space = n.ch])

\* print_context: the characters written after the "..N: " prefix
print_context(t, ctx) ==
    LET is_control == is_control_flow(t, ctx.text)
    IN print_loop(t, is_control,
                  [ptr |-> maybe_skip_substr(t, ctx.text), ident_or_num_len |-> 0,
                   before_space |-> NUL, prev_was_space |-> FALSE, n_chars |-> 0,
                   could_be_fn_name |-> ~is_control, out |-> <<>>, ch |-> NUL, stop |-> FALSE])

\* ------------------------------------------------------------------ the query
line_is_boring(A, t, i) == At(t, A[i].start_offset) = LBRACE

\* lines 597-598
RECURSIVE skip_deeper(_, _, _)
skip_deeper(A, o, indent) ==
    IF o > 0 /\ A[o].indentation > indent THEN skip_deeper(A, o - 1, indent) ELSE o

\* skip_boring comparing with the indentation of the line it has arrived at
RECURSIVE skip_boring_by_own_indent(_, _, _, _)
skip_boring_by_own_indent(A, t, o, indent) ==
    IF o > 0 /\ line_is_boring(A, t, o)
    THEN LET r == skip_deeper(A, o - 1, A[o].indentation)
         IN skip_boring_by_own_indent(A, t, r, indent)
    ELSE o

\* skip_boring with the guard outer > line_info_array + 1
RECURSIVE skip_boring_from_second(_, _, _, _)
skip_boring_from_second(A, t, o, indent) ==
    IF o > 1 /\ line_is_boring(A, t, o)
    THEN skip_boring_from_second(A, t, skip_deeper(A, o - 1, indent), indent)
    ELSE o

\* lines 595-599
RECURSIVE skip_boring(_, _, _, _)
skip_boring(A, t, o, indent) ==
    IF o > 0 /\ line_is_boring(A, t, o)
    THEN skip_boring(A, t, skip_deeper(A, o - 1, indent), indent)
    ELSE o

\* lines 592-599: the line the walk visits after line `from'
next_outer(A, t, from) ==
    LET o == A[from].outer_index IN skip_boring(A, t, o, A[o].indentation)

\* first pass of lines 592-609: count the contexts
RECURSIVE count_contexts(_, _, _)
count_contexts(A, t, from) ==
    IF A[from].outer_index >= 0 THEN 1 + count_contexts(A, t, next_outer(A, t, from)) ELSE 0

\* fill_contexts storing the contexts upwards from the start of the array, in
\* the order of the walk
RECURSIVE fill_contexts_in_walk_order(_, _, _, _)
fill_contexts_in_walk_order(A, t, from, r) ==
    IF A[from].outer_index >= 0
    THEN LET o == next_outer(A, t, from)
             k == Cardinality(DOMAIN r.array)
         IN fill_contexts_in_walk_order(A, t, o,
                [context_ptr |-> r.context_ptr - 1,
                 array |-> [i \in DOMAIN r.array \cup {k} |->
                               IF i = k THEN [index |-> o, text |-> A[o].start_offset]
                               ELSE r.array[i]],
                 fails |-> IF r.context_ptr > 0 THEN r.fails ELSE r.fails \cup {604}])
    ELSE r

\* fill_contexts walking on from the raw ancestor instead of the line the
\* boring skip arrived at
RECURSIVE fill_contexts_from_raw(_, _, _, _)
fill_contexts_from_raw(A, t, from, r) ==
    IF A[from].outer_index >= 0
    THEN LET o == next_outer(A, t, from)
             k == r.context_ptr - 1
         IN fill_contexts_from_raw(A, t, A[from].outer_index,
                [context_ptr |-> k,
                 array |-> [i \in DOMAIN r.array \cup {k} |->
                               IF i = k THEN [index |-> o, text |-> A[o].start_offset]
                               ELSE r.array[i]],
                 fails |-> IF r.context_ptr > 0 THEN r.fails ELSE r.fails \cup {604}])
    ELSE r

\* second pass: fill the array downwards from context_ptr; r.fails collects the
\* asserts of line 604
RECURSIVE fill_contexts(_, _, _, _)
fill_contexts(A, t, from, r) ==
    IF A[from].outer_index >= 0
    THEN LET o == next_outer(A, t, from)
             k == r.context_ptr - 1
         IN fill_contexts(A, t, o,
                [context_ptr |-> k,
                 array |-> [i \in DOMAIN r.array \cup {k} |->
                               IF i = k THEN [index |-> o, text |-> A[o].start_offset]
                               ELSE r.array[i]],
                 fails |-> IF r.context_ptr > 0 THEN r.fails ELSE r.fails \cup {604}])
    ELSE r

\* line 618: index - ctx->index < 20 in uint32_t: a negative difference wraps
\* to 2^32 - |d|, which is not below 20
is_near(idx, c) == LET d == idx - c IN IF d >= 0 THEN d < near_distance ELSE FALSE

\* elide_loop printing the marker at every elided context
RECURSIVE elide_loop_marks_each(_, _, _, _, _)
elide_loop_marks_each(t, C, n_contexts, idx, r) ==
    IF r.i < n_contexts
    THEN IF is_near(idx, C[r.i].index)
         THEN elide_loop_marks_each(t, C, n_contexts, idx,
                  [r EXCEPT !.i = @ + 1,
                            !.out = Append(@, [kind |-> "ellipsis", num |-> 0, label |-> <<>>])])
         ELSE elide_loop_marks_each(t, C, n_contexts, idx,
                  [r EXCEPT !.i = @ + 1,
                            !.out = Append(@, [kind |-> "context",
                                                num |-> 1 + C[r.i].index,
                                                label |-> print_context(t, C[r.i])])])
    ELSE r.out

\* lines 614-626: r.out are the items printed so far
RECURSIVE elide_loop(_, _, _, _, _)
elide_loop(t, C, n_contexts, idx, r) ==
    IF r.i < n_contexts
    THEN IF is_near(idx, C[r.i].index)
         THEN elide_loop(t, C, n_contexts, idx, [r EXCEPT !.i = @ + 1, !.skipped_previous = TRUE])
         ELSE elide_loop(t, C, n_contexts, idx,
                         [r EXCEPT !.i = @ + 1, !.skipped_previous = FALSE,
                                   !.out = Append(@, [kind |-> "context",
                                                       num |-> 1 + C[r.i].index,
                                                       label |-> print_context(t, C[r.i])])])
    ELSE IF r.skipped_previous
         THEN Append(r.out, [kind |-> "ellipsis", num |-> 0, label |-> <<>>])
         ELSE r.out

\* one iteration of the loop of lines 574-631 for a line inside the array
query_one(A, t, idx) ==
    LET n_contexts == count_contexts(A, t, idx)
        f == fill_contexts(A, t, idx, [context_ptr |-> n_contexts, array |-> <<>>, fails |-> {}])
        head == IF query_line = 0
                THEN <<[kind |-> "header", num |-> 1 + idx,
                        label |-> <<1 + A[idx].outer_index, A[idx].indentation>>]>>
                ELSE <<>>
        items == elide_loop(t, f.array, n_contexts, idx,
                            [i |-> f.context_ptr, skipped_previous |-> FALSE, out |-> <<>>])
        tail == IF query_line = 0 THEN <<[kind |-> "newline", num |-> 0, label |-> <<>>]>>
                ELSE <<>>
    IN [array |-> f.array, out |-> head \o items \o tail, head |-> head,
        fails |-> f.fails \cup (IF f.context_ptr >= 0 THEN {} ELSE {611})]

QueryLine ==
    /\ pc = "query"
    /\ index < end_index
    /\ IF index \in DOMAIN line_info_array
       THEN LET q == query_one(line_info_array, text, index)
            IN \/ /\ context_array' = q.array
                  /\ output' = Append(output, [index |-> index, items |-> q.out])
                  /\ failed_asserts' = failed_asserts \cup q.fails
                  /\ pc' = "query"
                  /\ oob' = oob
                  /\ UNCHANGED <<exit_code, messages>>
               \/ \* malloc returned a null pointer (lines 586-588)
                  /\ output' = Append(output, [index |-> index, items |-> q.head])
                  /\ exit_error("Out-of-memory allocating context array")
                  /\ UNCHANGED <<context_array, failed_asserts, oob>>
       ELSE \* line_info_array + index is outside the array: undefined behaviour
            /\ oob' = oob \cup {"query"}
            /\ pc' \in {"query", "crashed"}
            /\ UNCHANGED <<context_array, output, failed_asserts, exit_code, messages>>
    /\ index' = index + 1
    /\ UNCHANGED <<env, held, text, file_size, query_line, n_lines, ptr, tabsize, parser,
                   end_index>>

\* lines 633-638
Release ==
    /\ pc = "query"
    /\ index >= end_index
    /\ pc' = "done"
    /\ held' = held \ {"line_info_array", "text"}
    /\ exit_code' = 0
    /\ UNCHANGED <<env, messages, text, file_size, query_line, n_lines, ptr, tabsize, parser,
                   query, failed_asserts, oob>>

Next ==
    \/ ParseArgs
    \/ OpenFile
    \/ ReadFile
    \/ CountLines
    \/ BlankLine
    \/ Tab
    \/ Space
    \/ CarriageReturn
    \/ LineStart
    \/ SlashLine
    \/ CommentOpen
    \/ CommentChar
    \/ CommentClose
    \/ BuildDone
    \/ QueryLine
    \/ Release

Spec == Init /\ [][Next]_vars

\* ------------------------------------------------------------------ the build pass: properties
\* the lines the segmenter has finished, as indices of line_info_array
Finished == {k - 1 : k \in DOMAIN line_kind} \cap DOMAIN line_info_array
KindOf(i) == line_kind[i + 1].kind
Eligible(i) == KindOf(i) = "code" /\ line_kind[i + 1].elig
CommentKinds == {"comment_open", "comment_inner", "comment_close"}
Parent(i) == line_info_array[i].outer_index
Indentation(i) == line_info_array[i].indentation

\* C1: every non-blank, nesting-eligible line with indentation c and stored
\* parent P has P = -1 or indentation(P) < c.
C1_ParentLessIndented ==
    \A i \in Finished :
        Eligible(i) =>
            \/ Parent(i) = -1
            \/ Parent(i) \in Finished /\ Indentation(Parent(i)) < Indentation(i)

\* an eligible line got a parent after deeper lines between them were closed
C1_Witness ==
    /\ pc = "done"
    /\ \E i \in Finished :
          /\ Eligible(i)
          /\ Parent(i) >= 0
          /\ \E j \in Finished :
                /\ Parent(i) < j /\ j < i
                /\ Eligible(j)
                /\ Indentation(j) > Indentation(i)

\* C2: the stored outer_index of every line, of whatever kind, is -1 or an
\* index strictly less than the line's own index (so the links are acyclic).
C2_LinksPrecede ==
    \A i \in Finished : Parent(i) = -1 \/ (0 <= Parent(i) /\ Parent(i) < i)

\* a line that is not an eligible code line carries a parent link
C2_Witness ==
    /\ pc = "done"
    /\ \E i \in Finished : ~Eligible(i) /\ Parent(i) >= 0
    /\ \E i \in Finished : KindOf(i) \in CommentKinds /\ Parent(i) >= 0

\* C3: no line of a multi-line block comment (opening, interior, closing) is
\* stored as the outer_index of a later line or becomes prev_valid_index.
C3_CommentLinesNeverOpen ==
    \A i \in Finished :
        KindOf(i) \in CommentKinds =>
            /\ prev_valid_index # i
            /\ \A j \in Finished : Parent(j) # i

\* C9: the build pass writes exactly n_lines LineRecords and none at an index
\* >= n_lines: the asserts of lines 392, 472 and 560 hold, and no access in
\* the build pass falls outside line_info_array.
C9_ExactlyNLinesRecords ==
    /\ failed_asserts \cap {392, 472, 560} = {}
    /\ "build" \notin oob
    /\ pc \in {"query", "done"} => line_info = n_lines

\* the step finishes a blank line or an ineligible line
FinishesIneligibleLine ==
    /\ Len(line_kind') = Len(line_kind) + 1
    /\ LET k == line_kind'[Len(line_kind')]
       IN \/ k.kind = "blank"
          \/ k.kind = "code" /\ ~k.elig

\* the line starting at the scan pointer is a preprocessor line, a line
\* comment or a case label
StartsIneligibleLine ==
    /\ pc = "segment"
    /\ pc' = "segment"
    /\ \/ At(text, ptr) = HASH
       \/ At(text, ptr) = SLASH /\ At(text, ptr + 1) = SLASH
       \/ HasPrefixAt(text, ptr, STR_case_)
       \/ HasPrefixAt(text, ptr, <<CH_x, COLON, NL>>)

\* C10: processing a blank line or an ineligible line (preprocessor, line
\* comment, label, case) leaves outer_index, prev_indentation and
\* prev_valid_index unchanged.
C10_IneligibleLinesKeepState ==
    [][(FinishesIneligibleLine \/ StartsIneligibleLine)
         => UNCHANGED <<outer_index, prev_indentation, prev_valid_index>>]_vars

\* an ineligible line, indented differently from the state carried over it,
\* has been passed and a later eligible line got its parent from that state
C10_Witness ==
    /\ pc = "done"
    /\ \E i \in Finished :
          /\ KindOf(i) = "code" /\ ~Eligible(i)
          /\ i - 1 \in Finished /\ Eligible(i - 1)
          /\ Indentation(i) # Indentation(i - 1)
          /\ i + 1 \in Finished /\ Eligible(i + 1) /\ Parent(i + 1) = i - 1

\* ------------------------------------------------------------------ the query: properties
\* the latest iteration of the query loop: its target line, what it printed
\* and its context array (outermost first)
Queried == pc \in {"query", "done"} /\ output # <<>>
Target == output[Len(output)].index
Printed == output[Len(output)].items
NContexts == Cardinality(DOMAIN context_array)
\* the k-th innermost entry of the context list, k = 1 .. NContexts
Innermost(k) == context_array[NContexts - k].index

RECURSIVE RawChain(_)
RawChain(i) == IF Parent(i) >= 0 THEN <<Parent(i)>> \o RawChain(Parent(i)) ELSE <<>>

StartsWithBrace(i) == At(text, line_info_array[i].start_offset) = LBRACE
Resolution(i) == skip_boring(line_info_array, text, i, Indentation(i))

\* the walk that goes from a line to the resolution of its parent and on from there
RECURSIVE ResolvedWalk(_)
ResolvedWalk(i) ==
    IF Parent(i) >= 0
    THEN LET r == Resolution(Parent(i)) IN <<r>> \o ResolvedWalk(r)
    ELSE <<>>

\* the context items printed, as 0-based line indices in the order printed
PrintedContexts == [j \in 1..Len(SelectSeq(Printed, LAMBDA it : it.kind = "context")) |->
                       SelectSeq(Printed, LAMBDA it : it.kind = "context")[j].num - 1]
NotNear == {i \in DOMAIN context_array :
               ~(Target - context_array[i].index >= 0
                 /\ Target - context_array[i].index < near_distance)}
Near == DOMAIN context_array \ NotNear

\* C4 as stated: the context list has one entry per line of the raw ancestor
\* chain outer_index(t), outer_index(outer_index(t)), ..., its k-th innermost
\* entry being the boring-skip resolution of the k-th raw ancestor.
C4_OneEntryPerRawAncestor ==
    Queried =>
        LET raw == RawChain(Target)
        IN /\ NContexts = Len(raw)
           /\ \A k \in 1..Len(raw) : Innermost(k) = Resolution(raw[k])

\* C4 amended: the context list has one entry per step of the walk that goes
\* from the current line to the boring-skip resolution of its outer_index and
\* continues from that resolved line; the array holds it outermost first, and
\* the contexts are printed in array order.
C4_OneEntryPerWalkStep ==
    Queried =>
        LET w == ResolvedWalk(Target)
        IN /\ DOMAIN context_array = 0..(Len(w) - 1)
           /\ \A k \in 1..Len(w) :
                 /\ Innermost(k) = w[k]
                 /\ context_array[NContexts - k].text = line_info_array[w[k]].start_offset
           /\ \E pos \in [1..Len(PrintedContexts) -> DOMAIN context_array] :
                 /\ \A j \in DOMAIN pos : context_array[pos[j]].index = PrintedContexts[j]
                 /\ \A j \in DOMAIN pos : \A l \in DOMAIN pos : j < l => pos[j] < pos[l]

\* a walk of two steps that leaves the raw chain at a boring ancestor
C4_Witness ==
    /\ Queried
    /\ NContexts >= 2
    /\ Len(RawChain(Target)) > NContexts
    /\ \E k \in 1..NContexts : Innermost(k) # RawChain(Target)[k]

\* C5 as stated: no line whose first non-indentation character is '{' appears
\* in a context list.
C5_NoBoringContext ==
    Queried => \A i \in DOMAIN context_array : ~StartsWithBrace(context_array[i].index)

\* C5 amended: a line whose first non-indentation character is '{' appears in
\* a context list only if it is the first line of the file (index 0).
C5_BoringOnlyAtFirstLine ==
    Queried =>
        \A i \in DOMAIN context_array :
            StartsWithBrace(context_array[i].index) => context_array[i].index = 0

\* a boring ancestor below the first line was replaced by a line that is not boring
C5_Witness ==
    /\ Queried
    /\ Parent(Target) > 0
    /\ StartsWithBrace(Parent(Target))
    /\ NContexts >= 1
    /\ Innermost(1) < Parent(Target)
    /\ ~StartsWithBrace(Innermost(1))

\* C6: the output for a target line holds exactly one ellipsis marker if at
\* least one context was elided by the 20-line proximity rule and none
\* otherwise, and the marker comes after all printed contexts.
C6_OneEllipsisIffElided ==
    Queried =>
        LET ells == {j \in DOMAIN Printed : Printed[j].kind = "ellipsis"}
            ctxs == {j \in DOMAIN Printed : Printed[j].kind = "context"}
        IN /\ Cardinality(ells) = IF Near # {} THEN 1 ELSE 0
           /\ Cardinality(ctxs) = Cardinality(NotNear)
           /\ \A e \in ells : \A c \in ctxs : c < e

\* a target with a printed context and two elided ones
C6_Witness ==
    /\ Queried
    /\ Cardinality(Near) >= 2
    /\ NotNear # {}
    /\ Cardinality({j \in DOMAIN Printed : Printed[j].kind = "ellipsis"}) = 1

\* ------------------------------------------------------------------ the formatter on its own
\* print_context applied to the text of one context line: a keyword or no
\* keyword, then up to MaxTokens pieces
STR_abcdefgh == <<97, 98, 99, 100, 101, 102, 103, 104>>
FmtPrefixes ==
    {<<>>, STR_if_, STR_do_, STR_for_, STR_case_, STR_while_, STR_switch_, STR_namespace_}
FmtTokens ==
    {<<LPAREN>>, <<SP>>, STR_abcdefgh, <<CH_x, SP, CH_x>>, <<SLASH, SLASH>>, <<UNDERSCORE>>}
FmtTexts == {pre \o Flatten(ts) : pre \in FmtPrefixes, ts \in SeqsUpTo(FmtTokens, MaxTokens)}

InitFmt ==
    \E f \in FmtTexts :
        /\ argv = <<>>
        /\ file_bytes = f
        /\ file_ops = {}
        /\ held = {"text"}
        /\ exit_code = -1
        /\ messages = <<>>
        /\ pc = "fmt"
        /\ text = f \o <<NUL>>
        /\ file_size = Len(f)
        /\ query_line = 0
        /\ n_lines = 0
        /\ ptr = 0
        /\ line = 0
        /\ column = 0
        /\ tabsize = 0
        /\ outer_index = 0
        /\ line_info_array = <<>>
        /\ line_info = 0
        /\ prev_indentation = 0
        /\ may_become_context = FALSE
        /\ prev_valid_index = 0
        /\ comment_contains_newline = FALSE
        /\ index = 0
        /\ end_index = 0
        /\ context_array = [i \in {0} |-> [index |-> 0, text |-> 0]]
        /\ output = <<>>
        /\ failed_asserts = {}
        /\ oob = {}
        /\ line_kind = <<>>
        /\ diagnostics = <<>>

\* line 622: print_context(ctx)
PrintContext ==
    /\ pc = "fmt"
    /\ output' = <<[index |-> 0,
                    items |-> <<[kind |-> "context", num |-> 1 + context_array[0].index,
                                 label |-> print_context(text, context_array[0])]>>]>>
    /\ pc' = "printed"
    /\ UNCHANGED <<env, held, exit_code, messages, text, file_size, query_line, n_lines, ptr,
                   tabsize, parser, index, end_index, context_array, failed_asserts, oob>>

NextFmt == PrintContext

SpecFmt == InitFmt /\ [][NextFmt]_vars

\* ------------------------------------------------------------------ the formatter: properties
Label == output[1].items[1].label
IsControlLine == is_control_flow(text, 0)
IsIdentChar(ch) == isalnum(ch) \/ ch = UNDERSCORE

\* C7: the label rendered for a control-flow line is at most 20 characters long.
C7_ControlLabelAtMost20 ==
    (pc = "printed" /\ IsControlLine) => Len(Label) <= max_control_len

\* the part of the line that is rendered: from the end of the "namespace "
\* prefixes up to the end of the text or the first "//", and for a line that
\* is not control flow up to its first '('
RECURSIVE RenderedPart(_, _)
RenderedPart(t, p) ==
    IF At(t, p) = NUL \/ (At(t, p) = SLASH /\ At(t, p + 1) = SLASH) THEN <<>>
    ELSE IF At(t, p) = LPAREN /\ ~is_control_flow(t, 0) THEN <<>>
    ELSE <<At(t, p)>> \o RenderedPart(t, p + 1)

\* the maximal runs of identifier characters of a string, in order
RECURSIVE IdentRuns(_, _)
IdentRuns(str, run) ==
    IF str = <<>> THEN (IF run = <<>> THEN <<>> ELSE <<run>>)
    ELSE IF IsIdentChar(Head(str)) THEN IdentRuns(Tail(str), Append(run, Head(str)))
    ELSE (IF run = <<>> THEN <<>> ELSE <<run>>) \o IdentRuns(Tail(str), <<>>)

Truncated(run) ==
    IF Len(run) > max_ident_or_num_len
    THEN SubSeq(run, 1, max_ident_or_num_len) \o <<DOLLAR>>
    ELSE run

IsPrefix(a, b) == Len(a) <= Len(b) /\ SubSeq(b, 1, Len(a)) = a

\* C8: in a control-flow line every run of more than 6 identifier characters is
\* rendered as its first 6 characters and one '$' (unless the length cap cuts
\* the label); in a line that is not control flow every identifier character
\* up to the terminating '(' is rendered as it is and no '$' is added.
C8_IdentifierTruncation ==
    pc = "printed" =>
        LET runs == IdentRuns(RenderedPart(text, maybe_skip_substr(text, 0)), <<>>)
            expected == Flatten([k \in DOMAIN runs |->
                                    IF IsControlLine THEN Truncated(runs[k]) ELSE runs[k]])
            shown == SelectSeq(Label, LAMBDA c : IsIdentChar(c) \/ c = DOLLAR)
        IN IF IsControlLine /\ Len(Label) >= max_control_len
           THEN IsPrefix(shown, expected)
           ELSE shown = expected

\* a control-flow line with a long identifier, rendered below the cap
C8_Witness ==
    /\ pc = "printed"
    /\ IsControlLine
    /\ Len(Label) < max_control_len
    /\ \E k \in DOMAIN Label : Label[k] = DOLLAR

\* ------------------------------------------------------------------ the links as documented
Max(S) == CHOOSE m \in S : \A k \in S : k <= m

\* the nearest line before i among the lines in S that is less indented than i, or -1
NearestLess(S, i) ==
    LET less == {j \in S : j < i /\ Indentation(j) < Indentation(i)}
    IN IF less = {} THEN -1 ELSE Max(less)

\* C11: for every line of the file, the stored outer_index is the index of
\* the nearest preceding line with strictly less indentation, or -1 if there
\* is no such line.
C11_NearestLessIndented ==
    \A i \in Finished : Parent(i) = NearestLess(Finished, i)

\* every eligible line is linked to the nearest eligible line before it that
\* is less indented (the result of an explicit indentation stack)
EligibleLinksNearest ==
    \A i \in Finished :
        Eligible(i) => Parent(i) = NearestLess({j \in Finished : Eligible(j)}, i)

\* ------------------------------------------------------------------ the command line: properties
HasHelpFlag == \E i \in 2..Len(argv) : IsHelpFlag(argv[i])
WrongArgumentCount == Len(argv) # 3
\* the second argument starts as a number and goes on with something else
TrailingNonDigit ==
    /\ Len(argv) = 3
    /\ argv[3] # <<>>
    /\ IsDigit(argv[3][1])
    /\ \E k \in DOMAIN argv[3] : ~IsDigit(argv[3][k])
LastMessage == messages[Len(messages)]

\* C12: a run with a help flag anywhere in the arguments, with an argument
\* count other than two, or with trailing non-digit characters in the line
\* number never opens or reads a file; it ends with exit code 0 and the usage
\* text for help, and with a non-zero exit code after a message on the error
\* stream for a usage error.
C12_NoFileAccessOnUsageExit ==
    /\ (HasHelpFlag \/ WrongArgumentCount \/ TrailingNonDigit) =>
          /\ file_ops = {}
          /\ pc \in {"args", "exited"}
          /\ pc = "exited" =>
                IF HasHelpFlag
                THEN exit_code = 0 /\ messages = << <<"stdout", "usage">> >>
                ELSE /\ exit_code > 0
                     /\ Len(messages) = 1
                     /\ LastMessage[1] = "stderr"
                     /\ LastMessage[2] = IF WrongArgumentCount THEN "expected two arguments"
                                          ELSE "expected a line number"
    /\ (pc = "exited" /\ LastMessage[2] \in {"usage", "expected two arguments",
                                              "expected a line number"}) =>
          file_ops = {}

\* a run refused for a line number followed by a letter
C12_Witness ==
    /\ pc = "exited"
    /\ ~HasHelpFlag
    /\ TrailingNonDigit
    /\ exit_code = 1

\* ------------------------------------------------------------------ resources: properties
\* C13: on every exit path, the early terminations through an error included,
\* every resource acquired so far (file handle, text buffer, LineInfo array,
\* context array) has been released when the process exits.
C13_ReleasedOnEveryExit ==
    pc \in {"done", "exited"} => held = {}

\* ------------------------------------------------------------------ the scan pointer: properties
\* C14: for every input buffer, a file whose last line is non-blank and has no
\* trailing newline included, ptr <= text + file_size holds at both assertion
\* sites: at the top of every iteration of the segmenter loop (line 385) and
\* after the end-of-line bytes of a non-blank line (line 550).
C14_ScanPointerWithinFile ==
    failed_asserts \cap {385, 550} = {}

\* ------------------------------------------------------------------ the open context: properties
\* the open context and its ancestors, as far as the links have been written
RECURSIVE OpenChain(_)
OpenChain(i) ==
    IF i < 0 THEN {}
    ELSE IF i \notin DOMAIN line_info_array \/ "outer_index" \notin line_info_array[i].written
    THEN {i}
    ELSE {i} \cup OpenChain(line_info_array[i].outer_index)

\* C15: at every first non-whitespace character of a line and at every
\* iteration of the pop loop: if outer_index >= 0 then outer_index < n_lines,
\* line_info_array[outer_index].indentation has been initialized and
\* prev_indentation >= line_info_array[outer_index].indentation; the asserts of
\* lines 227, 228 and 477 never fail.
C15_OpenContextValid ==
    /\ failed_asserts \cap {227, 228, 477} = {}
    /\ pc \in {"segment", "comment"} =>
          /\ \A j \in OpenChain(outer_index) :
                /\ j < n_lines
                /\ j \in DOMAIN line_info_array
                /\ "indentation" \in line_info_array[j].written
          /\ outer_index >= 0 =>
                prev_indentation >= line_info_array[outer_index].indentation

\* a line closed two contexts in the pop loop, and the scan went on
C15_Witness ==
    /\ pc = "segment"
    /\ \E i \in Finished :
          /\ Eligible(i) /\ i >= 3
          /\ Eligible(i - 1) /\ Parent(i - 1) > 0
          /\ Parent(Parent(i - 1)) >= 0
          /\ Indentation(i) <= Indentation(Parent(Parent(i - 1)))
          /\ Parent(i) < Parent(Parent(i - 1))

\* ------------------------------------------------------------------ the links and the explicit stack
NoBlockComment ==
    \A p \in DOMAIN file_bytes :
        ~(file_bytes[p] = SLASH /\ p + 1 \in DOMAIN file_bytes /\ file_bytes[p + 1] = STAR)

\* C16: in a file without block comments, the parent stored for each eligible
\* non-blank line i is the greatest index j < i of an eligible non-blank line
\* with indentation(j) < indentation(i), or -1 if there is none.
C16_ParentIsNearestEligible ==
    NoBlockComment => EligibleLinksNearest

\* an eligible line is linked across a less indented line that is not eligible
C16_Witness ==
    /\ pc = "done"
    /\ NoBlockComment
    /\ \E i \in Finished :
          /\ Eligible(i)
          /\ Parent(i) >= 0
          /\ \E j \in Finished :
                /\ Parent(i) < j /\ j < i
                /\ ~Eligible(j)
                /\ Indentation(j) < Indentation(i)
                /\ Indentation(j) > Indentation(Parent(i))

\* ------------------------------------------------------------------ the boring skip: properties
\* the nearest line strictly before b whose indentation is at most ind, or -1
NearestNotDeeper(b, ind) ==
    LET S == {j \in DOMAIN line_info_array : j < b /\ Indentation(j) <= ind}
    IN IF S = {} THEN -1 ELSE Max(S)

\* the skip as stated: every step compares with the indentation of the line
\* that is boring at that step
RECURSIVE StatedSkip(_)
StatedSkip(b) ==
    IF b >= 0 /\ StartsWithBrace(b) THEN StatedSkip(NearestNotDeeper(b, Indentation(b))) ELSE b

\* the skip with every step comparing with the indentation of the ancestor
\* the skip started at, and ending at line 0
RECURSIVE SkipFromAncestor(_, _)
SkipFromAncestor(b, ind) ==
    IF b > 0 /\ StartsWithBrace(b)
    THEN LET r == NearestNotDeeper(b, ind)
         IN SkipFromAncestor(IF r < 0 THEN 0 ELSE r, ind)
    ELSE b

\* the line whose outer_index the k-th step of the walk follows
WalkFrom(k) == IF k = 1 THEN Target ELSE Innermost(k - 1)

\* C17 as stated: each boring-skip step replaces the boring line B by the
\* nearest strictly earlier line whose indentation is <= indentation(B), and
\* is repeated with the replacement as the new B while that is boring.
C17_SkipComparesWithBoringLine ==
    Queried =>
        \A k \in 1..NContexts : Innermost(k) = StatedSkip(Parent(WalkFrom(k)))

\* C17 amended: each boring-skip step replaces the boring line B by the
\* nearest strictly earlier line whose indentation is <= the indentation of
\* the ancestor the skip started from, or by line 0 if there is no such line;
\* the step is repeated while the replacement is boring and is not line 0.
C17_SkipComparesWithAncestor ==
    Queried =>
        \A k \in 1..NContexts :
            Innermost(k) = SkipFromAncestor(Parent(WalkFrom(k)), Indentation(Parent(WalkFrom(k))))

\* a skip of two steps whose second step passes a line that is deeper than
\* the first replacement but not deeper than the ancestor
C17_Witness ==
    /\ Queried
    /\ NContexts >= 1
    /\ LET b == Parent(Target)
           r == NearestNotDeeper(b, Indentation(b))
       IN /\ b > 0 /\ StartsWithBrace(b)
          /\ r > 0 /\ StartsWithBrace(r)
          /\ Indentation(r) < Indentation(b)
          /\ Innermost(1) < r
          /\ Indentation(Innermost(1)) > Indentation(r)

\* ------------------------------------------------------------------ the query range: properties
\* C18: for every value of the line-number argument, a value greater than the
\* line count of the file and any value on an empty file included, the query
\* phase reads LineInfo records at indices in [0, n_lines) only.
C18_QueryReadsInsideArray ==
    "query" \notin oob

\* ------------------------------------------------------------------ the context list: properties
\* C19: the indices of the contexts of a target line are strictly increasing
\* from outermost to innermost and all strictly less than the index of the
\* target, so the distance index - ctx->index never wraps and the elided
\* contexts form a suffix of the list.
C19_ContextsIncreaseBelowTarget ==
    Queried =>
        /\ \A i \in DOMAIN context_array : \A j \in DOMAIN context_array :
              i < j => context_array[i].index < context_array[j].index
        /\ \A i \in DOMAIN context_array :
              /\ context_array[i].index >= 0
              /\ context_array[i].index < Target
        /\ \A i \in Near : \A j \in DOMAIN context_array : i < j => j \in Near
        /\ failed_asserts \cap {604, 611} = {}

\* a list with a printed context that a boring skip arrived at and an elided
\* context
C19_Witness ==
    /\ Queried
    /\ NContexts >= 2
    /\ Near # {}
    /\ NotNear # {}
    /\ \E k \in 1..NContexts :
          /\ NContexts - k \in NotNear
          /\ Innermost(k) # Parent(WalkFrom(k))

\* ------------------------------------------------------------------ termination
\* runs for the termination check: three-line files around every odd line, a
\* file with nested lines around a comment of three lines, files that end
\* early or inside a comment; the whole file, one line, a line past the end
LoopFile ==
    Indented(0, <<CH_x>>) \o Indented(1, <<CH_x>>) \o Indented(2, <<SLASH, STAR>>)
    \o Indented(0, <<>>) \o Indented(0, <<STAR, SLASH>>) \o Indented(3, <<CH_x>>)
    \o Indented(1, <<CH_x>>) \o Indented(2, <<CH_x>>)
LiveFiles ==
    {Indented(0, <<CH_x>>) \o Indented(b, m) \o Indented(c, <<CH_x>>) :
        b \in {0, 1, 2}, c \in {0, 1}, m \in OddBodies}
    \cup {LoopFile, <<>>, <<CH_x>>, <<HASH, NUL>>, <<SLASH, STAR>>, <<SLASH, STAR, CH_x, NL>>,
          <<SLASH, STAR, NL, STAR, SLASH, NUL>>, <<LBRACE, NL, SP, LBRACE, NL, SP, SP, CH_x>>}
LiveRuns ==
    {[argv |-> CommandLine(q), file |-> f] : f \in LiveFiles, q \in {0, 2, 9}}
    \cup {[argv |-> a, file |-> <<CH_x, NL, SP, CH_x, NL>>] : a \in OddCommandLines}

InitLive ==
    \E run \in LiveRuns :
        /\ argv = run.argv
        /\ file_bytes = run.file
        /\ file_ops = {}
        /\ held = {}
        /\ exit_code = -1
        /\ messages = <<>>
        /\ pc = "args"
        /\ text = <<>>
        /\ file_size = 0
        /\ query_line = 0
        /\ n_lines = 0
        /\ ptr = 0
        /\ line = 0
        /\ column = 0
        /\ tabsize = 0
        /\ outer_index = 0
        /\ line_info_array = <<>>
        /\ line_info = 0
        /\ prev_indentation = 0
        /\ may_become_context = FALSE
        /\ prev_valid_index = 0
        /\ comment_contains_newline = FALSE
        /\ index = 0
        /\ end_index = 0
        /\ context_array = <<>>
        /\ output = <<>>
        /\ failed_asserts = {}
        /\ oob = {}
        /\ line_kind = <<>>
        /\ diagnostics = <<>>

\* main is one sequential process: while it has not ended, its next step is taken
SpecLive == InitLive /\ [][Next]_vars /\ WF_vars(Next)

Ended == pc \in {"done", "exited", "aborted", "crashed"}

\* an iteration of the segmenter loop or of the comment loop moves the scan
\* pointer forward inside the buffer; the comment loop is left without a move
\* only at the terminating NUL
ScanAdvances ==
    (pc \in {"segment", "comment"} /\ pc' \in {"segment", "comment"}) =>
        /\ ptr' > ptr \/ (pc = "comment" /\ At(text, ptr) = NUL /\ ptr' = ptr /\ pc' = "segment")
        /\ ptr' < Len(text')
        /\ At(text, ptr) = NUL => pc = "comment"

\* an iteration of the query loop moves to the next line
QueryAdvances == (pc = "query" /\ pc' = "query") => index' = index + 1 /\ index < end_index

\* every step of the ancestor walk arrives at a smaller line index
WalkDecreases == Queried => \A k \in 1..NContexts : Innermost(k) < WalkFrom(k)

\* a measure of the work left: the phases before the scan, then twice the
\* bytes left to scan (a step out of the comment loop at the NUL counts one),
\* then the lines left to query
Rank ==
    IF Ended THEN 0
    ELSE IF pc = "query" THEN 1 + (IF end_index > index THEN end_index - index ELSE 0)
    ELSE IF pc \in {"segment", "comment"}
         THEN Len(text) + 2 + 2 * (Len(text) - ptr) + (IF pc = "comment" THEN 1 ELSE 0)
    ELSE 3 * (Len(file_bytes) + 2) + 3
         + (IF pc = "count" THEN 0 ELSE IF pc = "read" THEN 1 ELSE IF pc = "open" THEN 2 ELSE 3)

\* C20: for every finite input buffer and every query line the run ends:
\* every step of the run decreases a measure that is a natural number, so no
\* run takes infinitely many steps (and by the fairness of SpecLive none
\* stops before its end).  Each iteration of the segmenter loop, the comment
\* loop and the skip to the end of the line included, advances the scan
\* pointer and stops at the terminating NUL, the pop loop strictly decreases
\* outer_index (assert of line 229), and each step of the ancestor walk with
\* boring skip strictly decreases the current line index.
C20_RunTerminates ==
    /\ [][Rank' < Rank /\ ScanAdvances /\ QueryAdvances]_vars
    /\ [](Rank >= 0)
    /\ [](229 \notin failed_asserts)
    /\ []WalkDecreases

\* a run over a comment of several lines and a closed context has ended after
\* a walk of two steps
C20_Witness ==
    /\ pc = "done"
    /\ NContexts >= 2
    /\ \E i \in Finished : KindOf(i) = "comment_inner"
    /\ \E i \in Finished : Eligible(i) /\ i > 0 /\ Indentation(i) < Indentation(i - 1)

\* ------------------------------------------------------------------ the formatter and '('
\* the characters that print_context writes as they are and never adds
IsPunct(ch) == ~isspace(ch) /\ ~IsIdentChar(ch) /\ ch # DOLLAR
Puncts(str) == SelectSeq(str, IsPunct)
Parens(str) == {k \in DOMAIN str : str[k] = LPAREN}
Min(S) == CHOOSE m \in S : \A k \in S : m <= k

\* the line from the end of the "namespace " prefixes up to the end of the
\* text or the first "//", whatever the line is
RECURSIVE UpToComment(_, _)
UpToComment(t, p) ==
    IF At(t, p) = NUL \/ (At(t, p) = SLASH /\ At(t, p + 1) = SLASH) THEN <<>>
    ELSE <<At(t, p)>> \o UpToComment(t, p + 1)

\* C21: in a line that is not control flow the rendering stops right after the
\* first '(' is written, so that the label holds at most one '(', as its last
\* character, and holds one whenever the line has a '(' before its end or its
\* "//"; in a control-flow line a '(' never ends the rendering: every
\* character that is neither white space nor part of an identifier is written,
\* in order, up to the end of the line or its "//", unless the length cap
\* cuts the label.
C21_ParenEndsOnlyNonControl ==
    pc = "printed" =>
        LET whole == UpToComment(text, maybe_skip_substr(text, 0))
        IN IF ~IsControlLine
           THEN /\ Parens(Label) \subseteq {Len(Label)}
                /\ Parens(whole) # {} <=> Parens(Label) # {}
                /\ Parens(whole) # {} =>
                       Puncts(Label) = Puncts(SubSeq(whole, 1, Min(Parens(whole))))
           ELSE IF Len(Label) >= max_control_len
           THEN IsPrefix(Puncts(Label), Puncts(whole))
           ELSE Puncts(Label) = Puncts(whole)

\* a line that is not control flow with text and a second '(' after its first
\* '(', rendered up to the first one
C21_Witness ==
    /\ pc = "printed"
    /\ ~IsControlLine
    /\ Cardinality(Parens(UpToComment(text, maybe_skip_substr(text, 0)))) >= 2
    /\ Len(Label) >= 2
    /\ Label[Len(Label)] = LPAREN

\* a control-flow line rendered below the cap with characters after its '('
C21_ControlWitness ==
    /\ pc = "printed"
    /\ IsControlLine
    /\ Len(Label) < max_control_len
    /\ \E k \in Parens(Label) : k < Len(Label)

\* ------------------------------------------------------------------ the column on its own
\* The scan of one line's indentation, entered at a column that the bytes
\* already scanned have produced: every uint32_t value is such a column (c / 8
\* tabs and then c % 8 spaces give c, in a file of at most 2^29 + 6 bytes).
\* `ptr' counts the bytes scanned from there and `column' is a pair of halves.
LowColumns == {U32(n) : n \in 0..ColumnMargin}
HighColumns == {[hi |-> Half - 1, lo |-> Half - 1 - n] : n \in 0..ColumnMargin}
Columns == LowColumns \cup HighColumns

InitCol ==
    \E c \in Columns :
        /\ argv = <<>>
        /\ file_bytes = <<>>
        /\ file_ops = {}
        /\ held = {"text", "line_info_array"}
        /\ exit_code = -1
        /\ messages = <<>>
        /\ pc = "indent"
        /\ text = <<>>
        /\ file_size = 0
        /\ query_line = 0
        /\ n_lines = 0
        /\ ptr = 0
        /\ line = 1
        /\ column = c
        /\ tabsize = tabsize_value
        /\ outer_index = -1
        /\ line_info_array = <<>>
        /\ line_info = 0
        /\ prev_indentation = 0
        /\ may_become_context = TRUE
        /\ prev_valid_index = -1
        /\ comment_contains_newline = FALSE
        /\ index = 0
        /\ end_index = 0
        /\ context_array = <<>>
        /\ output = <<>>
        /\ failed_asserts = {}
        /\ oob = {}
        /\ line_kind = <<>>
        /\ diagnostics = <<>>

\* case '\t' on the column alone
ColTab ==
    /\ pc = "indent"
    /\ ptr < MaxIndentBytes
    /\ ptr' = ptr + 1
    /\ column' = column_after_tab(column, tabsize)
    /\ UNCHANGED <<env, held, exit_code, messages, pc, text, file_size, query_line, n_lines,
                   line, tabsize, outer_index, line_info_array, line_info, prev_indentation,
                   may_become_context, prev_valid_index, comment_contains_newline, line_kind,
                   diagnostics, query, failed_asserts, oob>>

\* case ' ' on the column alone
ColSpace ==
    /\ pc = "indent"
    /\ ptr < MaxIndentBytes
    /\ ptr' = ptr + 1
    /\ column' = column_after_space(column)
    /\ UNCHANGED <<env, held, exit_code, messages, pc, text, file_size, query_line, n_lines,
                   line, tabsize, outer_index, line_info_array, line_info, prev_indentation,
                   may_become_context, prev_valid_index, comment_contains_newline, line_kind,
                   diagnostics, query, failed_asserts, oob>>

NextCol == ColTab \/ ColSpace

SpecCol == InitCol /\ [][NextCol]_vars

\* ------------------------------------------------------------------ the column: properties
\* the next multiple of 8 strictly greater than c: 8 * (floor(c / 8) + 1)
NextTabStop(c) == nat_mul(tabsize_value, nat_add(nat_div(c, tabsize_value), 1))

\* C22: while the indentation of a line is scanned from column c, a tab sets
\* the column to the next multiple of 8 strictly greater than c,
\* 8 * (floor(c / 8) + 1), and a space sets it to c + 1, for every column c
\* that can be reached.
C22_TabAndSpaceColumns ==
    [][/\ column' = column_after_tab(column, tabsize) => column' = NextTabStop(column)
       /\ column' = column_after_space(column) => column' = nat_add(column, 1)]_vars

\* below the top of uint32_t the columns are as stated: the tab from a column
\* of at most UINT32_MAX - 8 and the space from one of at most UINT32_MAX - 1
BelowTop(c, n) == c.hi < Half - 1 \/ c.lo < Half - n
TabAndSpaceColumnsBelowTop ==
    [][/\ (BelowTop(column, 8) /\ column' = column_after_tab(column, tabsize))
            => column' = NextTabStop(column)
       /\ (BelowTop(column, 1) /\ column' = column_after_space(column))
            => column' = nat_add(column, 1)]_vars

\* a tab from one of the last 8 columns of uint32_t, and a space from the
\* last one, give column 0
TabAndSpaceWrapToZero ==
    [][/\ (~BelowTop(column, 8) /\ column' = column_after_tab(column, tabsize))
            => column' = U32(0)
       /\ (~BelowTop(column, 1) /\ column' = column_after_space(column))
            => column' = U32(0)]_vars
====
